---- MODULE Spec2Model ----
(***************************************************************************)
(* Model of fetch_data.py: the rolling wOBA/xwOBA differential pipeline.   *)
(*                                                                         *)
(* Numbers.  Raw inputs (woba_value, estimated_woba_using_speedangle, the  *)
(* provider's season differential) are decimals held as integers in        *)
(* ten-thousandths.  Everything the program reports is rounded to three    *)
(* decimals and held as an integer in thousandths.  A Python float is a    *)
(* record [k, v]: k = "fin" (v the value), "inf", "-inf" or "nan"; None is *)
(* the record with k = "none".                                             *)
(***************************************************************************)
EXTENDS Integers, Sequences, FiniteSets, TLC

\* ---------------------------------------------------------------- constants
MIN_PA == 50
TREND_POINTS == 20
ROLLING_WINDOWS == <<50, 100, 250>>

\* ---------------------------------------------------------------- bounds
\* plate appearances one batter has on one game date
PAPerGame == 5
\* length of a short block of a batter's event stream
ShortBlock == 1
\* length of the long leading block of a batter's event stream
LongLead == 200
\* length of the long trailing block of a batter's event stream
LongTail == 100

Batters == {1, 2}

\* ---------------------------------------------------------------- floats
Fin(x) == [k |-> "fin", v |-> x]
Inf == [k |-> "inf", v |-> 0]
NegInf == [k |-> "-inf", v |-> 0]
NaN == [k |-> "nan", v |-> 0]
None == [k |-> "none", v |-> 0]

\* pd.isna / pd.notna on a scalar
IsNa(x) == x.k \in {"nan", "none"}

\* IEEE subtraction a - b
FSub(a, b) ==
    IF a.k = "nan" \/ b.k = "nan" THEN NaN
    ELSE IF a.k = "fin" /\ b.k = "fin" THEN Fin(a.v - b.v)
    ELSE IF a.k = "fin" THEN (IF b.k = "inf" THEN NegInf ELSE Inf)
    ELSE IF b.k = "fin" THEN a
    ELSE IF a.k = b.k THEN NaN
    ELSE a

\* IEEE negation
FNeg(a) ==
    IF a.k = "fin" THEN Fin(0 - a.v)
    ELSE IF a.k = "inf" THEN NegInf
    ELSE IF a.k = "-inf" THEN Inf
    ELSE a

\* ---------------------------------------------------------------- binary64
\* A finite double is [s, m, e]: s its sign (1 or -1), m its 53 significant
\* bits, most significant first and the first one 1, e the exponent of the
\* last bit; its value is s * m * 2^e.  Zero has m = <<>>.  Every operation
\* rounds to nearest, halves to even, as IEEE 754 does.
Zeros(n) == [i \in 1..n |-> 0]

DZero == [s |-> 1, m |-> <<>>, e |-> 0]

PadLeft(b, n) == Zeros(n - Len(b)) \o b

LeadingZeros(b) ==
    IF \A i \in 1..Len(b) : b[i] = 0 THEN Len(b)
    ELSE (CHOOSE i \in 1..Len(b) : b[i] = 1 /\ \A j \in 1..(i - 1) : b[j] = 0) - 1

\* the bits of a natural number, and back
RECURSIVE IntToBits(_)
IntToBits(n) == IF n = 0 THEN <<>> ELSE Append(IntToBits(n \div 2), n % 2)

RECURSIVE BitsToInt(_)
BitsToInt(b) ==
    IF b = <<>> THEN 0
    ELSE 2 * BitsToInt(SubSeq(b, 1, Len(b) - 1)) + b[Len(b)]

\* b + 1; one bit longer when b is all ones
Increment(b) ==
    IF \A i \in 1..Len(b) : b[i] = 1 THEN <<1>> \o Zeros(Len(b))
    ELSE LET j == CHOOSE i \in 1..Len(b) :
                     b[i] = 0 /\ \A k \in (i + 1)..Len(b) : b[k] = 1
         IN  [i \in 1..Len(b) |-> IF i < j THEN b[i] ELSE IF i = j THEN 1 ELSE 0]

\* the double nearest to s * (b * 2^e + t), where 0 <= t < 2^e and t > 0
\* exactly when sticky
RoundBits(s, b, e, sticky) ==
    LET z == LeadingZeros(b)
        n == Len(b) - z
    IN  IF n = 0 THEN DZero
        ELSE IF n <= 53
        THEN [s |-> s, m |-> SubSeq(b, z + 1, Len(b)) \o Zeros(53 - n),
              e |-> e - (53 - n)]
        ELSE LET m0 == SubSeq(b, z + 1, z + 53)
                 st == sticky \/ \E i \in (z + 55)..Len(b) : b[i] = 1
                 up == b[z + 54] = 1 /\ (st \/ m0[53] = 1)
                 m1 == IF up THEN Increment(m0) ELSE m0
             IN  IF Len(m1) = 54
                 THEN [s |-> s, m |-> SubSeq(m1, 1, 53), e |-> e + n - 52]
                 ELSE [s |-> s, m |-> m1, e |-> e + n - 53]

\* float(n) of an integer
FromInt(n) ==
    IF n < 0 THEN RoundBits(-1, IntToBits(0 - n), 0, FALSE)
    ELSE RoundBits(1, IntToBits(n), 0, FALSE)

\* the bit operations below walk their bits in blocks of eight, so that no
\* recursion is deeper than the number of blocks plus eight

\* long division of the bits b by w, bits i..hi with remainder r so far:
\* <<quotient bits, remainder>>
RECURSIVE LongDivTo(_, _, _, _, _, _)
LongDivTo(b, w, i, hi, r, acc) ==
    IF i > hi THEN <<acc, r>>
    ELSE LET t == 2 * r + b[i]
         IN  IF t >= w THEN LongDivTo(b, w, i + 1, hi, t - w, Append(acc, 1))
             ELSE LongDivTo(b, w, i + 1, hi, t, Append(acc, 0))

RECURSIVE LongDiv(_, _, _, _, _)
LongDiv(b, w, i, r, acc) ==
    IF i > Len(b) THEN <<acc, r>>
    ELSE LET hi == IF i + 7 < Len(b) THEN i + 7 ELSE Len(b)
             c == LongDivTo(b, w, i, hi, r, acc)
         IN  LongDiv(b, w, hi + 1, c[2], c[1])

\* x / w for a positive integer w
DDiv(x, w) ==
    IF x.m = <<>> THEN DZero
    ELSE LET qr == LongDiv(x.m \o Zeros(64), w, 1, 0, <<>>)
         IN  RoundBits(x.s, qr[1], x.e - 64, qr[2] # 0)

\* a + b and a - b (a >= b) on bit sequences of one length, bits i down to
\* lo with carry c: <<bits, carry>>
RECURSIVE AddBitsTo(_, _, _, _, _, _)
AddBitsTo(a, b, i, lo, c, acc) ==
    IF i < lo THEN <<acc, c>>
    ELSE LET t == a[i] + b[i] + c
         IN  IF t >= 2 THEN AddBitsTo(a, b, i - 1, lo, 1, <<t - 2>> \o acc)
             ELSE AddBitsTo(a, b, i - 1, lo, 0, <<t>> \o acc)

RECURSIVE AddBits(_, _, _, _, _)
AddBits(a, b, i, c, acc) ==
    IF i = 0 THEN acc
    ELSE LET lo == IF i > 8 THEN i - 7 ELSE 1
             r == AddBitsTo(a, b, i, lo, c, acc)
         IN  AddBits(a, b, lo - 1, r[2], r[1])

RECURSIVE SubBitsTo(_, _, _, _, _, _)
SubBitsTo(a, b, i, lo, c, acc) ==
    IF i < lo THEN <<acc, c>>
    ELSE LET t == a[i] - b[i] - c
         IN  IF t < 0 THEN SubBitsTo(a, b, i - 1, lo, 1, <<t + 2>> \o acc)
             ELSE SubBitsTo(a, b, i - 1, lo, 0, <<t>> \o acc)

RECURSIVE SubBits(_, _, _, _, _)
SubBits(a, b, i, c, acc) ==
    IF i = 0 THEN acc
    ELSE LET lo == IF i > 8 THEN i - 7 ELSE 1
             r == SubBitsTo(a, b, i, lo, c, acc)
         IN  SubBits(a, b, lo - 1, r[2], r[1])

GeBits(a, b) ==
    LET D == {i \in 1..Len(a) : a[i] # b[i]}
    IN  D = {} \/ a[CHOOSE i \in D : \A j \in D : i <= j] = 1

\* x + y
DAdd(x, y) ==
    IF x.m = <<>> THEN y
    ELSE IF y.m = <<>> THEN x
    ELSE LET e0 == IF x.e < y.e THEN x.e ELSE y.e
             bx == x.m \o Zeros(x.e - e0)
             by == y.m \o Zeros(y.e - e0)
             n == 1 + (IF Len(bx) > Len(by) THEN Len(bx) ELSE Len(by))
             a == PadLeft(bx, n)
             b == PadLeft(by, n)
         IN  IF x.s = y.s THEN RoundBits(x.s, AddBits(a, b, n, 0, <<>>), e0, FALSE)
             ELSE IF a = b THEN DZero
             ELSE IF GeBits(a, b)
             THEN RoundBits(x.s, SubBits(a, b, n, 0, <<>>), e0, FALSE)
             ELSE RoundBits(y.s, SubBits(b, a, n, 0, <<>>), e0, FALSE)

\* x - y
DSub(x, y) == DAdd(x, [s |-> 0 - y.s, m |-> y.m, e |-> y.e])

\* the bits of b * k for a small natural k
RECURSIVE MulSmallTo(_, _, _, _, _, _)
MulSmallTo(b, k, i, lo, c, acc) ==
    IF i < lo THEN <<acc, c>>
    ELSE LET t == b[i] * k + c
         IN  IF t % 2 = 1 THEN MulSmallTo(b, k, i - 1, lo, t \div 2, <<1>> \o acc)
             ELSE MulSmallTo(b, k, i - 1, lo, t \div 2, <<0>> \o acc)

RECURSIVE MulSmall(_, _, _, _, _)
MulSmall(b, k, i, c, acc) ==
    IF i = 0 THEN IntToBits(c) \o acc
    ELSE LET lo == IF i > 8 THEN i - 7 ELSE 1
             r == MulSmallTo(b, k, i, lo, c, acc)
         IN  MulSmall(b, k, lo - 1, r[2], r[1])

\* round(x, 3) in thousandths: the integer nearest to the exact value of
\* 1000 * x, halves to even
DRound3(x) ==
    IF x.m = <<>> THEN 0
    ELSE LET p == MulSmall(x.m, 1000, 53, 0, <<>>)
             f == 0 - x.e
         IN  IF f <= 0 THEN x.s * BitsToInt(p \o Zeros(0 - f))
             ELSE LET pp == IF Len(p) > f THEN p ELSE PadLeft(p, f + 1)
                      q == BitsToInt(SubSeq(pp, 1, Len(pp) - f))
                      h == Len(pp) - f + 1
                      up == pp[h] = 1 /\ (q % 2 = 1 \/ \E i \in (h + 1)..Len(pp) : pp[i] = 1)
                  IN  x.s * (IF up THEN q + 1 ELSE q)

\* float of a decimal held in ten-thousandths
FromDecimal(v) == DDiv(FromInt(v), 10000)

\* ---------------------------------------------------------------- rounding
\* a / b lies exactly halfway between two integers (b > 0)
OnTie(a, b) == 2 * ((IF a < 0 THEN 0 - a ELSE a) % b) = b

\* round(x, 3) in thousandths, of the double x nearest to a / (1000 * b)
\* (b > 0).  Off a tie the double lies far nearer to the quotient than the
\* quotient to a tie, and the thousandth nearest to the quotient is taken;
\* on a tie the double itself is rounded.
RoundDiv(a, b) ==
    IF OnTie(a, b) THEN DRound3(DDiv(FromInt(a), 1000 * b))
    ELSE (2 * a + b) \div (2 * b)

\* a rolling ratio before rounding: n / d - s / d for sums n and s in
\* ten-thousandths and a weight sum d; a plain ratio has s = 0.  The field
\* tie tells how the float falls when that value lies exactly halfway
\* between two thousandths: "float" when the sums are the doubles of n and s,
\* so that the binary64 quotients and their difference decide; "down" or
\* "up" when the last bits of the sums put it below or above.
Ratio(num, den) ==
    IF den # 0 THEN [k |-> "fin", n |-> num, s |-> 0, d |-> den, tie |-> "float"]
    ELSE IF num > 0 THEN [k |-> "inf", n |-> 0, s |-> 0, d |-> 1, tie |-> "float"]
    ELSE IF num < 0 THEN [k |-> "-inf", n |-> 0, s |-> 0, d |-> 1, tie |-> "float"]
    ELSE [k |-> "nan", n |-> 0, s |-> 0, d |-> 1, tie |-> "float"]

\* round(float(x), 3) of a ratio: thousandths
Round3(x) ==
    IF x.k # "fin" THEN [k |-> x.k, v |-> 0]
    ELSE IF ~OnTie(x.n - x.s, 10 * x.d) THEN Fin(RoundDiv(x.n - x.s, 10 * x.d))
    ELSE IF x.tie = "float"
    THEN Fin(DRound3(DSub(DDiv(FromDecimal(x.n), x.d),
                          DDiv(FromDecimal(x.s), x.d))))
    ELSE IF x.tie = "up" THEN Fin(((x.n - x.s) \div (10 * x.d)) + 1)
    ELSE Fin((x.n - x.s) \div (10 * x.d))

\* rolling_woba - rolling_xwoba: both ratios share the weight sum
RatioSub(a, b) ==
    IF a.k = "fin" /\ b.k = "fin"
    THEN [k |-> "fin", n |-> a.n, s |-> b.n, d |-> a.d, tie |-> "float"]
    ELSE [k |-> FSub([k |-> a.k, v |-> 0], [k |-> b.k, v |-> 0]).k,
          n |-> 0, s |-> 0, d |-> 1, tie |-> "float"]

\* safe_round(val, 3) of a raw value in ten-thousandths
safe_round(val) ==
    IF IsNa(val) THEN None
    ELSE IF val.k = "fin" THEN Fin(RoundDiv(val.v, 10))
    ELSE val

\* str(window)
Str(w) == CASE w = 50 -> "50" [] w = 100 -> "100" [] w = 250 -> "250"

\* ---------------------------------------------------------------- inputs
\* Event templates: what one pitch row carries besides batter and time.  The
\* values of the first five are multiples of 0.128: no quotient of their sums
\* by a weight sum below 256 lies exactly halfway between two thousandths.
\* The double (1.25, estimate 0.528) puts rolling values on such ties.
Kind(name) ==
    CASE name = "single" ->
           [woba_value |-> Fin(8960), woba_denom |-> Fin(1),
            estimated_woba_using_speedangle |-> Fin(3840),
            inning_topbot |-> "Top", home_team |-> "BOS", away_team |-> "NYY"]
      [] name = "walk" ->
           [woba_value |-> Fin(6400), woba_denom |-> Fin(1),
            estimated_woba_using_speedangle |-> NaN,
            inning_topbot |-> "Bot", home_team |-> "BOS", away_team |-> "NYY"]
      [] name = "out" ->
           [woba_value |-> Fin(0), woba_denom |-> Fin(1),
            estimated_woba_using_speedangle |-> Fin(1280),
            inning_topbot |-> "Top", home_team |-> "NYY", away_team |-> "SEA"]
      [] name = "sac" ->
           [woba_value |-> Fin(0), woba_denom |-> Fin(0),
            estimated_woba_using_speedangle |-> Fin(2560),
            inning_topbot |-> "Bot", home_team |-> "SEA", away_team |-> "BOS"]
      [] name = "glitch" ->
           [woba_value |-> Fin(8960), woba_denom |-> NaN,
            estimated_woba_using_speedangle |-> Fin(0),
            inning_topbot |-> "Top", home_team |-> "BOS", away_team |-> "SEA"]
      [] name = "double" ->
           [woba_value |-> Fin(12500), woba_denom |-> Fin(1),
            estimated_woba_using_speedangle |-> Fin(5280),
            inning_topbot |-> "Bot", home_team |-> "NYY", away_team |-> "BOS"]

Kinds == {"single", "walk", "out", "sac", "glitch"}

\* the j-th plate appearance of batter b, of kind name
PaRow(b, j, name) ==
    LET t == Kind(name)
    IN  [batter |-> b,
         game_date |-> ((j - 1) \div PAPerGame) + 1,
         at_bat_number |-> ((j - 1) % PAPerGame) * Cardinality(Batters) + b,
         events |-> TRUE,
         woba_value |-> t.woba_value,
         woba_denom |-> t.woba_denom,
         estimated_woba_using_speedangle |-> t.estimated_woba_using_speedangle,
         inning_topbot |-> t.inning_topbot,
         home_team |-> t.home_team,
         away_team |-> t.away_team]

\* a pitch of batter b that ends no plate appearance (events is null)
PitchRow(b) ==
    [batter |-> b, game_date |-> 1, at_bat_number |-> b, events |-> FALSE,
     woba_value |-> NaN, woba_denom |-> NaN,
     estimated_woba_using_speedangle |-> NaN,
     inning_topbot |-> "Bot", home_team |-> "SEA", away_team |-> "NYY"]

\* A batter's season in the raw event collection: n1 events of kind k1
\* followed by n2 events of kind k2.
Profile(n1, k1, n2, k2) == [n1 |-> n1, k1 |-> k1, n2 |-> n2, k2 |-> k2]

NoEvents == Profile(0, "single", 0, "single")

\* the rows of batter b in chronological order, one non-terminal pitch first
Stream(b, p) ==
    IF p.n1 + p.n2 = 0 THEN <<>>
    ELSE <<PitchRow(b)>> \o
         [j \in 1..(p.n1 + p.n2) |->
             PaRow(b, j, IF j <= p.n1 THEN p.k1 ELSE p.k2)]

Reverse(s) == [i \in 1..Len(s) |-> s[Len(s) + 1 - i]]

RECURSIVE ConcatStreams(_, _)
ConcatStreams(profs, b) ==
    IF b \notin Batters THEN <<>>
    ELSE Stream(b, profs[b]) \o ConcatStreams(profs, b + 1)

\* the raw event collection as the provider presents it
PitchDf(profs, order) ==
    IF order = "fwd" THEN ConcatStreams(profs, 1)
    ELSE Reverse(ConcatStreams(profs, 1))

LeadLens == {0, ShortBlock, LongLead}
TailLens == {ShortBlock, MIN_PA - 1, MIN_PA, LongTail}

RichProfiles ==
    {Profile(0, "single", n2, k2) : n2 \in TailLens, k2 \in Kinds}
    \cup {Profile(n1, k1, n2, k2) :
            n1 \in LeadLens \ {0}, k1 \in Kinds, n2 \in TailLens, k2 \in Kinds}

\* a long block closed by doubles: the windows that end in them hold ties
TieProfiles == {Profile(LongLead, k1, ShortBlock, "double") : k1 \in Kinds}

PlainProfiles ==
    {NoEvents, Profile(0, "single", MIN_PA, "walk"),
     Profile(ShortBlock, "single", MIN_PA, "glitch")}

SmallProfiles ==
    {NoEvents} \cup
    {Profile(0, "single", n2, k2) :
        n2 \in {MIN_PA - 1, MIN_PA}, k2 \in {"single", "sac"}}

\* a row of the season aggregate (pa, provider differential in
\* ten-thousandths, expected minus realized)
SeasonRow(b, pa, diff) ==
    [player_id |-> b, pa |-> pa, est_woba_minus_woba_diff |-> diff]

SeasonChoices ==
    {[pa |-> MIN_PA - 1, diff |-> Fin(204)], [pa |-> MIN_PA, diff |-> NaN],
     [pa |-> MIN_PA, diff |-> Fin(204)], [pa |-> MIN_PA + 10, diff |-> Fin(-496)],
     [pa |-> MIN_PA + 10, diff |-> Inf]}

RECURSIVE SeasonRows(_, _)
SeasonRows(ch, b) ==
    IF b \notin Batters THEN <<>>
    ELSE <<SeasonRow(b, ch[b].pa, ch[b].diff)>> \o SeasonRows(ch, b + 1)

ExpectedDf(ch, order) ==
    IF order = "fwd" THEN SeasonRows(ch, 1) ELSE Reverse(SeasonRows(ch, 1))

PlainSeason == [b \in Batters |-> [pa |-> MIN_PA + b, diff |-> Fin(204)]]

Orders == {"fwd", "rev"}

\* ---------------------------------------------------------------- frames
EmptyMap == [b \in {} |-> 0]

Range(s) == {s[i] : i \in 1..Len(s)}

SetMax(S) == CHOOSE x \in S : \A y \in S : y <= x
SetMin(S) == CHOOSE x \in S : \A y \in S : x <= y

RECURSIVE Buckets(_, _, _, _)
Buckets(s, f, k, hi) ==
    IF k > hi THEN <<>>
    ELSE SelectSeq(s, LAMBDA r : r[f] = k) \o Buckets(s, f, k + 1, hi)

\* a stable sort of the rows by the integer column f
StableSort(s, f) ==
    IF s = <<>> THEN s
    ELSE LET keys == {s[i][f] : i \in 1..Len(s)}
         IN  Buckets(s, f, SetMin(keys), SetMax(keys))

\* df.sort_values(["game_date", "at_bat_number"]): a lexsort, which is stable
SortByDateAtBat(s) == StableSort(StableSort(s, "at_bat_number"), "game_date")

\* faulty variant: the filter keeps every pitch
NotnaEventsAll(df) == df

\* pitch_df[pitch_df["events"].notna()]
NotnaEvents(df) == SelectSeq(df, LAMBDA r : r.events)

\* pd.to_numeric(col, errors="coerce").fillna(0)
ToNumericFill0(x) == IF IsNa(x) THEN 0 ELSE x.v

\* estimated_woba_using_speedangle.fillna(woba_value)
XwobaValue(r) ==
    IF IsNa(r.estimated_woba_using_speedangle) THEN ToNumericFill0(r.woba_value)
    ELSE r.estimated_woba_using_speedangle.v

\* one row after the numeric coercions and with the derived xwoba_value
CleanRow(r) ==
    [batter |-> r.batter, game_date |-> r.game_date,
     at_bat_number |-> r.at_bat_number,
     woba_value |-> ToNumericFill0(r.woba_value),
     woba_denom |-> ToNumericFill0(r.woba_denom),
     estimated_woba_using_speedangle |-> r.estimated_woba_using_speedangle,
     xwoba_value |-> XwobaValue(r)]

\* pa_df of compute_rolling_metrics: filtered, sorted, coerced
PaDf(df) ==
    LET sorted == SortByDateAtBat(NotnaEvents(df))
    IN  [i \in 1..Len(sorted) |-> CleanRow(sorted[i])]

\* the keys of pa_df.groupby("batter"), in iteration order (ascending)
RECURSIVE AscendingSeq(_)
AscendingSeq(S) ==
    IF S = {} THEN <<>>
    ELSE LET m == SetMin(S) IN <<m>> \o AscendingSeq(S \ {m})

GroupKeys(pa) == AscendingSeq({pa[i].batter : i \in 1..Len(pa)})

\* one group of the groupby, sorted again as the loop body does
BatterPa(pa, b) == SortByDateAtBat(SelectSeq(pa, LAMBDA r : r.batter = b))

\* ---------------------------------------------------------------- rolling
\* running totals by doubling: after the pass with step k, element i holds
\* the sum of the (at most) 2k values that end at i
RECURSIVE Scan(_, _)
Scan(cs, k) ==
    IF k >= Len(cs) THEN cs
    ELSE Scan(SubSeq([i \in 1..Len(cs) |->
                        cs[i] + (IF i > k THEN cs[i - k] ELSE 0)], 1, Len(cs)),
              2 * k)

\* running totals of column f: element p is the sum of rows 1..p
CumSum(s, f) == Scan(SubSeq([i \in 1..Len(s) |-> s[i][f]], 1, Len(s)), 1)

\* faulty variant: the trailing sum takes one row more than the window
RollingSumWide(cs, window, p) ==
    cs[p] - (IF p <= window + 1 THEN 0 ELSE cs[p - window - 1])

\* col.rolling(window, min_periods=window).sum() at row p >= window
RollingSum(cs, window, p) == cs[p] - (IF p = window THEN 0 ELSE cs[p - window])

\* Every sum of values of column f is a double and every addition and
\* subtraction of them is exact: the values are whole sixteenths (625
\* ten-thousandths).  Of any other column the rolling sums carry rounding
\* errors that depend on the order and the compensation of pandas' windowed
\* additions, which the source does not fix: a plain running sum and a
\* compensated one differ in the last bits.
ExactSums(s, f) == \A i \in 1..Len(s) : s[i][f] % 625 = 0

\* x, with the side of a tie that the last bits of the sums give it at
\* position pos: above for the positions in up, below for the others
Sided(x, exact, pos, up) ==
    IF exact \/ x.k # "fin" THEN x
    ELSE [x EXCEPT !.tie = IF pos \in up THEN "up" ELSE "down"]

\* the row at which the second non-zero value of column f enters the sums
\* (past the end when there is none): before it every sum is one value or
\* zero, and exact
SecondNonZero(s, f) ==
    LET nz == {i \in 1..Len(s) : s[i][f] # 0}
    IN  IF Cardinality(nz) < 2 THEN Len(s) + 1
        ELSE SetMin(nz \ {SetMin(nz)})

\* The rows whose window holds only zeros of column f are runs: within a run
\* zeros enter and leave the running sum and leave it as it is.  A run is
\* named by the number of non-zero values that follow row p: no such value
\* enters during a run, and one does between two runs.
RunOf(s, f, p) == Cardinality({i \in (p + 1)..Len(s) : s[i][f] # 0})

\* The float sum of a window whose exact sum is 0, over the weight 0.0.  The
\* running sum of pandas keeps the rounding errors of the values that have
\* left the window: a residue that is positive, negative or zero with the
\* order and the compensation of the additions (a plain running sum, a
\* compensated one, or a window of equal values taken as value * count),
\* and residue / 0.0 is inf, -inf or NaN.  noise.sign gives it for each run;
\* a run it does not name has no residue.
Residue(noise, run) ==
    IF run \notin DOMAIN noise.sign THEN Ratio(0, 0)
    ELSE IF noise.sign[run] = "inf" THEN Ratio(1, 0)
    ELSE IF noise.sign[run] = "-inf" THEN Ratio(-1, 0)
    ELSE Ratio(0, 0)

\* whether the sum of column f over the window that ends at row p, exactly
\* num over the weight den, can carry such a residue
HasResidue(num, den, exact, second, p) ==
    num = 0 /\ den = 0 /\ ~exact /\ p >= second

\* the sums are as exact arithmetic gives them: no tie is raised and no run
\* has a residue
Quiet == [up |-> {}, sign |-> EmptyMap]

\* the one element of a singleton: The({e(x) : x \in {v}}) is e(v) with v
\* computed once
The(S) == CHOOSE x \in S : TRUE

\* the three rolling series of one window from the running totals cw, cd, cx
\* of the three columns; ew, ex: ExactSums of the value columns; sw, sx:
\* their SecondNonZero
SeriesOf(s, window, noise, cw, cd, cx, ew, ex, sw, sx) ==
    LET m == Len(s) - window + 1
        woba == [i \in 1..m |->
                   LET p == window - 1 + i
                       num == RollingSum(cw, window, p)
                       den == RollingSum(cd, window, p)
                   IN  IF HasResidue(num, den, ew, sw, p)
                       THEN Residue(noise, <<window, "rolling_woba",
                                             RunOf(s, "woba_value", p)>>)
                       ELSE Ratio(num, den)]
        xwoba == [i \in 1..m |->
                   LET p == window - 1 + i
                       num == RollingSum(cx, window, p)
                       den == RollingSum(cd, window, p)
                   IN  IF HasResidue(num, den, ex, sx, p)
                       THEN Residue(noise, <<window, "rolling_xwoba",
                                             RunOf(s, "xwoba_value", p)>>)
                       ELSE Ratio(num, den)]
    IN  [rolling_woba |-> [i \in 1..m |->
            Sided(woba[i], ew, <<window, "rolling_woba", i>>, noise.up)],
         rolling_xwoba |-> [i \in 1..m |->
            Sided(xwoba[i], ex, <<window, "rolling_xwoba", i>>, noise.up)],
         rolling_diff |-> [i \in 1..m |->
            Sided(RatioSub(woba[i], xwoba[i]), ew /\ ex,
                  <<window, "rolling_diff", i>>, noise.up)]]

\* the three rolling series of one window, rows window..n only (the rows
\* before are NaN by min_periods and take no part in anything below)
RollingSeries(s, window, noise) ==
    The({SeriesOf(s, window, noise, cw, cd, cx, ew, ex, sw, sx) :
           cw \in {CumSum(s, "woba_value")},
           cd \in {CumSum(s, "woba_denom")},
           cx \in {CumSum(s, "xwoba_value")},
           ew \in {ExactSums(s, "woba_value")},
           ex \in {ExactSums(s, "xwoba_value")},
           sw \in {SecondNonZero(s, "woba_value")},
           sx \in {SecondNonZero(s, "xwoba_value")}})

\* series.iloc[-1] if not pd.isna(series.iloc[-1]) else None, then rounded
Latest(series) ==
    LET x == series[Len(series)]
    IN  IF x.k = "nan" THEN None ELSE Round3(x)

\* series.dropna()
Dropna(series) == SelectSeq(series, LAMBDA x : x.k # "nan")

\* np.linspace(0, len - 1, TREND_POINTS, dtype=int), 0-based
Linspace(len) ==
    [i \in 1..TREND_POINTS |-> ((i - 1) * (len - 1)) \div (TREND_POINTS - 1)]

\* the trend of the realized series
TrendWoba(valid_woba) ==
    IF Len(valid_woba) >= TREND_POINTS
    THEN LET indices == Linspace(Len(valid_woba))
         IN  [i \in 1..TREND_POINTS |-> Round3(valid_woba[indices[i] + 1])]
    ELSE [i \in 1..Len(valid_woba) |-> Round3(valid_woba[i])]

\* the 0-based positions of valid_xwoba the trend of the expected series reads
XwobaIndices(valid_woba, valid_xwoba) ==
    IF Len(valid_woba) >= TREND_POINTS THEN Linspace(Len(valid_woba))
    ELSE IF Len(valid_woba) > 0 THEN [i \in 1..Len(valid_xwoba) |-> i - 1]
    ELSE <<>>

\* the trend of the expected series (where every index is in range)
TrendXwoba(valid_woba, valid_xwoba) ==
    LET indices == XwobaIndices(valid_woba, valid_xwoba)
    IN  [i \in 1..Len(indices) |-> Round3(valid_xwoba[indices[i] + 1])]

\* IndexError: valid_xwoba.iloc[i] in the sampled branch, trend_xwoba[i] in
\* trend_diff otherwise
TrendRaises(valid_woba, valid_xwoba) ==
    IF Len(valid_woba) >= TREND_POINTS
    THEN \E i \in 1..TREND_POINTS :
            Linspace(Len(valid_woba))[i] >= Len(valid_xwoba)
    ELSE Len(valid_woba) > Len(valid_xwoba)

\* the dict stored under str(window), from the series and the trends
WindowDict(rs, trend_woba, trend_xwoba) ==
    [rolling_woba |-> Latest(rs.rolling_woba),
     rolling_xwoba |-> Latest(rs.rolling_xwoba),
     diff_rolling_OBA |-> Latest(rs.rolling_diff),
     trend_woba |-> trend_woba,
     trend_xwoba |-> trend_xwoba,
     trend_diff |-> [i \in 1..Len(trend_woba) |->
                       FSub(trend_woba[i], trend_xwoba[i])]]

\* the dict stored under str(window)
WindowResult(s, window, noise) ==
    The({The({The({WindowDict(rs, trend_woba, trend_xwoba) :
                     trend_woba \in {TrendWoba(valid_woba)},
                     trend_xwoba \in {TrendXwoba(valid_woba, valid_xwoba)}}) :
                valid_woba \in {Dropna(rs.rolling_woba)},
                valid_xwoba \in {Dropna(rs.rolling_xwoba)}}) :
           rs \in {RollingSeries(s, window, noise)}})

\* whether computing the window's dict raises
WindowRaises(s, window, noise) ==
    \E rs \in {RollingSeries(s, window, noise)} :
        TrendRaises(Dropna(rs.rolling_woba), Dropna(rs.rolling_xwoba))

\* the windows the loop over ROLLING_WINDOWS does not skip
WindowsOf(total_pa) ==
    {ROLLING_WINDOWS[i] : i \in {j \in 1..Len(ROLLING_WINDOWS) :
                                    total_pa >= ROLLING_WINDOWS[j]}}

\* the positions <<window, series, row>> of the rolling series of s whose
\* value lies on a tie that the last bits of the sums decide
Ties(s) ==
    UNION {LET rs == RollingSeries(s, w, Quiet)
           IN  {pos \in {w} \X {"rolling_woba", "rolling_xwoba", "rolling_diff"}
                            \X (1..(Len(s) - w + 1)) :
                   LET x == rs[pos[2]][pos[3]]
                   IN  /\ x.k = "fin"
                       /\ x.tie # "float"
                       /\ OnTie(x.n - x.s, 10 * x.d)}
           : w \in WindowsOf(Len(s))}

\* the runs <<window, series, name>> of column f of s in which the sum and
\* the weight are 0 and the sum can carry a residue
RunsOfColumn(s, f, series) ==
    LET cv == CumSum(s, f)
        cd == CumSum(s, "woba_denom")
        exact == ExactSums(s, f)
        second == SecondNonZero(s, f)
    IN  UNION {{<<w, series, RunOf(s, f, p)>> :
                  p \in {q \in w..Len(s) :
                           HasResidue(RollingSum(cv, w, q), RollingSum(cd, w, q),
                                      exact, second, q)}}
               : w \in WindowsOf(Len(s))}

Runs(s) ==
    RunsOfColumn(s, "woba_value", "rolling_woba")
        \cup RunsOfColumn(s, "xwoba_value", "rolling_xwoba")

\* what the last bits of the float sums of s can be: the side of each tie
\* and the residue of each run
Noises(s) == [up : SUBSET Ties(s), sign : [Runs(s) -> {"nan", "inf", "-inf"}]]

BatterRaises(s, noise) ==
    \E w \in WindowsOf(Len(s)) : WindowRaises(s, w, noise)

\* batter_result of one loop iteration
BatterResult(s, noise) ==
    [total_pa |-> Len(s),
     windows |-> [key \in {Str(w) : w \in WindowsOf(Len(s))} |->
                    WindowResult(s, CHOOSE w \in WindowsOf(Len(s)) : Str(w) = key,
                                 noise)]]

\* ---------------------------------------------------------------- teams
\* the lambda of extract_batter_teams
BatTeam(r) == IF r.inning_topbot = "Top" THEN r.away_team ELSE r.home_team

\* Batters with a qualifying event.
TeamBatters(df) == {df[i].batter : i \in {j \in 1..Len(df) : df[j].events}}

\* sort_values("game_date") is numpy's quicksort, which is not stable: any
\* of the batter's qualifying rows of its latest game date may come last.
LastTeams(df, b) ==
    LET rows == {df[i] : i \in {j \in 1..Len(df) : df[j].events /\ df[j].batter = b}}
        last == SetMax({r.game_date : r \in rows})
    IN  {BatTeam(r) : r \in {q \in rows : q.game_date = last}}

\* ---------------------------------------------------------------- merge
\* the primary differential taken from the rolling block: the first window
\* of [100, 50, 250] that is present with a differential that is not None
RECURSIVE PickRolling(_, _, _)
PickRolling(windows, order, i) ==
    IF i > Len(order) THEN None
    ELSE IF Str(order[i]) \in DOMAIN windows
            /\ windows[Str(order[i])].diff_rolling_OBA # None
         THEN windows[Str(order[i])].diff_rolling_OBA
         ELSE PickRolling(windows, order, i + 1)

\* faulty variant: the windows are tried in the order they are configured
PreferenceOrderAsConfigured == <<50, 100, 250>>

PreferenceOrder == <<100, 50, 250>>

\* faulty variant: the fallback keeps the provider's sign
SeasonFallbackUnnegated(season_diff) ==
    IF ~IsNa(season_diff) THEN safe_round(season_diff) ELSE Fin(0)

\* the fallback when no rolling differential was set
SeasonFallback(season_diff) ==
    IF ~IsNa(season_diff) THEN safe_round(FNeg(season_diff)) ELSE Fin(0)

\* the record build_output appends for one row of the season aggregate
Player(row, rolling, teams) ==
    LET player_id == row.player_id
        team == IF player_id \in DOMAIN teams THEN teams[player_id] ELSE ""
        base == [player_id |-> player_id, team |-> team, pa |-> row.pa,
                 diff_season |-> safe_round(row.est_woba_minus_woba_diff)]
        picked == IF player_id \in DOMAIN rolling
                  THEN PickRolling(rolling[player_id].windows, PreferenceOrder, 1)
                  ELSE None
        primary == IF picked # None THEN picked
                   ELSE SeasonFallback(row.est_woba_minus_woba_diff)
    IN  IF player_id \in DOMAIN rolling
        THEN [player_id |-> player_id, team |-> team, pa |-> row.pa,
              diff_season |-> base.diff_season,
              rolling |-> rolling[player_id].windows,
              total_pa_events |-> rolling[player_id].total_pa,
              diff_rolling_OBA |-> primary]
        ELSE [player_id |-> player_id, team |-> team, pa |-> row.pa,
              diff_season |-> base.diff_season,
              diff_rolling_OBA |-> primary]

\* a < b on floats
FLt(a, b) ==
    IF a.k = "nan" \/ b.k = "nan" THEN FALSE
    ELSE IF a.k = "-inf" THEN b.k # "-inf"
    ELSE IF a.k = "inf" THEN FALSE
    ELSE b.k = "inf" \/ (b.k = "fin" /\ a.v < b.v)

\* players.sort(key=...): stable, ascending; p goes before the records it is
\* less than
RECURSIVE InsertSorted(_, _)
InsertSorted(sorted, p) ==
    IF sorted = <<>> THEN <<p>>
    ELSE IF ~FLt(p.diff_rolling_OBA, sorted[Len(sorted)].diff_rolling_OBA)
         THEN Append(sorted, p)
         ELSE Append(InsertSorted(SubSeq(sorted, 1, Len(sorted) - 1), p),
                     sorted[Len(sorted)])

\* faulty variant: the list is returned in the order of the season rows
SortPlayersNone(ps) == ps

RECURSIVE SortPlayers(_)
SortPlayers(ps) ==
    IF ps = <<>> THEN <<>>
    ELSE InsertSorted(SortPlayers(SubSeq(ps, 1, Len(ps) - 1)), ps[Len(ps)])

\* ---------------------------------------------------------------- state
VARIABLES
    pitch_df,      \* the raw event collection (empty once its fetch failed)
    expected_df,   \* the season aggregate
    pc,            \* where main is
    team_map,      \* main's team_map
    pa_df,         \* compute_rolling_metrics: the cleaned events
    todo,          \* compute_rolling_metrics: the groups still to iterate
    batter_pa,     \* compute_rolling_metrics: the group of the last iteration
    results,       \* compute_rolling_metrics: results
    rolling_data,  \* main's rolling_data
    row_i,         \* build_output: rows of expected_df iterated so far
    players        \* build_output: players

vars == <<pitch_df, expected_df, pc, team_map, pa_df, todo, batter_pa,
          results, rolling_data, row_i, players>>

\* the inputs: a rich event collection with a plain season aggregate, or a
\* small event collection with any season aggregate
Init ==
    /\ \/ \E p1 \in RichProfiles \cup TieProfiles, p2 \in PlainProfiles, o \in Orders :
            /\ pitch_df = PitchDf([b \in Batters |-> IF b = 1 THEN p1 ELSE p2], o)
            /\ expected_df = ExpectedDf(PlainSeason, o)
       \/ \E profs \in [Batters -> SmallProfiles],
             ch \in [Batters -> SeasonChoices], o1 \in Orders, o2 \in Orders :
            /\ pitch_df = PitchDf(profs, o1)
            /\ expected_df = ExpectedDf(ch, o2)
    /\ pc = "step3"
    /\ team_map = EmptyMap
    /\ pa_df = <<>>
    /\ todo = <<>>
    /\ batter_pa = <<>>
    /\ results = EmptyMap
    /\ rolling_data = EmptyMap
    /\ row_i = 0
    /\ players = <<>>

\* main, step 3: statcast() returns the event collection
FetchPitchLevel ==
    /\ pc = "step3"
    /\ pc' = "step3b"
    /\ UNCHANGED <<pitch_df, expected_df, team_map, pa_df, todo, batter_pa,
                   results, rolling_data, row_i, players>>

\* main, step 3: statcast() raises; the except branch runs
FetchPitchLevelFails ==
    /\ pc = "step3"
    /\ pitch_df' = <<>>
    /\ rolling_data' = EmptyMap
    /\ team_map' = EmptyMap
    /\ pc' = "step5"
    /\ UNCHANGED <<expected_df, pa_df, todo, batter_pa, results, row_i, players>>

\* extract_batter_teams
ExtractBatterTeams ==
    /\ pc = "step3b"
    /\ \E tm \in [TeamBatters(pitch_df) -> {"NYY", "BOS", "SEA"}] :
          /\ \A b \in TeamBatters(pitch_df) : tm[b] \in LastTeams(pitch_df, b)
          /\ team_map' = tm
    /\ pc' = "step4"
    /\ UNCHANGED <<pitch_df, expected_df, pa_df, todo, batter_pa, results,
                   rolling_data, row_i, players>>

\* compute_rolling_metrics up to its loop
ComputeRollingEnter ==
    /\ pc = "step4"
    /\ pa_df' = PaDf(pitch_df)
    /\ todo' = GroupKeys(PaDf(pitch_df))
    /\ results' = EmptyMap
    /\ pc' = "loop"
    /\ UNCHANGED <<pitch_df, expected_df, team_map, batter_pa, rolling_data,
                   row_i, players>>

\* one iteration of the loop over the groups that ends normally
ProcessBatter ==
    /\ pc = "loop"
    /\ todo # <<>>
    /\ LET batter_id == Head(todo)
           group == BatterPa(pa_df, batter_id)
           total_pa == Len(group)
       IN  /\ batter_pa' = group
           /\ IF total_pa < MIN_PA
              THEN results' = results
              ELSE \E noise \in Noises(group) :
                      /\ ~BatterRaises(group, noise)
                      /\ LET batter_result == BatterResult(group, noise)
                         IN  results' =
                              IF DOMAIN batter_result.windows # {}
                              THEN [b \in DOMAIN results \cup {batter_id} |->
                                      IF b = batter_id THEN batter_result
                                      ELSE results[b]]
                              ELSE results
    /\ todo' = Tail(todo)
    /\ UNCHANGED <<pitch_df, expected_df, pc, team_map, pa_df, rolling_data,
                   row_i, players>>

\* one iteration that raises IndexError: compute_rolling_metrics is left and
\* main's except branch runs
ProcessBatterRaises ==
    /\ pc = "loop"
    /\ todo # <<>>
    /\ LET group == BatterPa(pa_df, Head(todo))
       IN  /\ Len(group) >= MIN_PA
           /\ \E noise \in Noises(group) : BatterRaises(group, noise)
           /\ batter_pa' = group
    /\ rolling_data' = EmptyMap
    /\ team_map' = EmptyMap
    /\ pc' = "step5"
    /\ UNCHANGED <<pitch_df, expected_df, pa_df, todo, results, row_i, players>>

\* compute_rolling_metrics returns results
ComputeRollingReturn ==
    /\ pc = "loop"
    /\ todo = <<>>
    /\ rolling_data' = results
    /\ pc' = "step5"
    /\ UNCHANGED <<pitch_df, expected_df, team_map, pa_df, todo, batter_pa,
                   results, row_i, players>>

\* build_output: one iteration of the loop over expected_df
BuildRow ==
    /\ pc = "step5"
    /\ row_i < Len(expected_df)
    /\ row_i' = row_i + 1
    /\ LET row == expected_df[row_i + 1]
       IN  players' = IF row.pa < MIN_PA THEN players
                      ELSE Append(players, Player(row, rolling_data, team_map))
    /\ UNCHANGED <<pitch_df, expected_df, pc, team_map, pa_df, todo, batter_pa,
                   results, rolling_data>>

\* build_output: the sort, and the return
SortOutput ==
    /\ pc = "step5"
    /\ row_i = Len(expected_df)
    /\ players' = SortPlayers(players)
    /\ pc' = "done"
    /\ UNCHANGED <<pitch_df, expected_df, team_map, pa_df, todo, batter_pa,
                   results, rolling_data, row_i>>

Next ==
    \/ FetchPitchLevel
    \/ FetchPitchLevelFails
    \/ ExtractBatterTeams
    \/ ComputeRollingEnter
    \/ ProcessBatter
    \/ ProcessBatterRaises
    \/ ComputeRollingReturn
    \/ BuildRow
    \/ SortOutput

Spec == Init /\ [][Next]_vars

\* ---------------------------------------------------------------- properties
\* What the properties read off the inputs, independently of the pipeline.

\* the qualifying (plate-appearance-ending) rows of entity b
QualifyingRows(b) ==
    {pitch_df[i] : i \in {j \in 1..Len(pitch_df) :
                            pitch_df[j].events /\ pitch_df[j].batter = b}}

QualifyingCount(b) ==
    Cardinality({j \in 1..Len(pitch_df) :
                    pitch_df[j].events /\ pitch_df[j].batter = b})

Realized(r) == IF r.woba_value.k = "fin" THEN r.woba_value.v ELSE 0
Weight(r) == IF r.woba_denom.k = "fin" THEN r.woba_denom.v ELSE 0
Expected(r) ==
    IF r.estimated_woba_using_speedangle.k = "fin"
    THEN r.estimated_woba_using_speedangle.v
    ELSE Realized(r)

\* the events of b: (game date, at-bat number, realized, weight, expected)
EventsOf(b) ==
    {<<r.game_date, r.at_bat_number, Realized(r), Weight(r), Expected(r)>> :
        r \in QualifyingRows(b)}

\* the same view of a group the loop has sorted
GroupView(g) ==
    {<<g[i].game_date, g[i].at_bat_number, g[i].woba_value, g[i].woba_denom,
       g[i].xwoba_value>> : i \in 1..Len(g)}

\* g is strictly ascending by (game date, at-bat number)
Chronological(g) ==
    \A i \in 1..(Len(g) - 1) :
        \/ g[i].game_date < g[i + 1].game_date
        \/ /\ g[i].game_date = g[i + 1].game_date
           /\ g[i].at_bat_number < g[i + 1].at_bat_number

RECURSIVE SumRange(_, _, _, _)
SumRange(g, f, lo, hi) ==
    IF lo > hi THEN 0
    ELSE IF lo = hi THEN g[lo][f]
    ELSE LET mid == (lo + hi) \div 2
         IN  SumRange(g, f, lo, mid) + SumRange(g, f, mid + 1, hi)

\* the sum of column f over the last w rows of g
SumLast(g, f, w) == SumRange(g, f, Len(g) - w + 1, Len(g))

\* the positions of the records of entity b in players
PlayersOf(b) == {i \in 1..Len(players) : players[i].player_id = b}

\* the season row of entity b has at least MIN_PA plate appearances
SeasonQualifies(b) ==
    \E j \in 1..Len(expected_df) :
        expected_df[j].player_id = b /\ expected_df[j].pa >= MIN_PA

\* the season differential the provider gives for entity b
SeasonDiff(b) ==
    LET j == CHOOSE j \in 1..Len(expected_df) : expected_df[j].player_id = b
    IN  expected_df[j].est_woba_minus_woba_diff

\* the entity the loop iterated last, once it has an entry in results
LastHasResult ==
    /\ pc = "loop"
    /\ batter_pa # <<>>
    /\ batter_pa[1].batter \in DOMAIN results

\* the rolling stage ran over a fetched collection and returned
RollingStageCompleted == pa_df # <<>> /\ todo = <<>> /\ pc \in {"step5", "done"}

\* C1 as stated, for the entities that occur in a collection the rolling
\* stage completed on: an entity with fewer than MIN_PA qualifying events has
\* no record in the final output, whatever its season row says.
C1_AbsentBelowMinPa ==
    pc = "done" /\ RollingStageCompleted =>
        \A b \in Batters :
            QualifyingCount(b) \in 1..(MIN_PA - 1) => PlayersOf(b) = {}

\* C1 amended: an entity with fewer than MIN_PA qualifying events never has a
\* rolling block in its output record, and it is in the final output exactly
\* when its season row has a plate-appearance count of at least MIN_PA.
C1_NoRollingBelowMinPa ==
    \A b \in Batters :
        QualifyingCount(b) < MIN_PA =>
            /\ \A i \in PlayersOf(b) : "rolling" \notin DOMAIN players[i]
            /\ pc = "done" => (PlayersOf(b) # {} <=> SeasonQualifies(b))

C1_Witness ==
    /\ pc = "done"
    /\ pa_df # <<>>
    /\ \E b \in Batters :
          /\ QualifyingCount(b) = MIN_PA - 1
          /\ PlayersOf(b) # {}
          /\ \A i \in PlayersOf(b) : "rolling" \notin DOMAIN players[i]

Defined(windows, key) ==
    key \in DOMAIN windows /\ windows[key].diff_rolling_OBA # None

\* C3: the primary differential of a record with a rolling block is the
\* headline differential of the first of the windows 100, 50, 250 that is
\* present with a defined differential.
C3_PreferenceOrder ==
    \A i \in 1..Len(players) :
        "rolling" \in DOMAIN players[i] =>
            LET ws == players[i].rolling
                primary == players[i].diff_rolling_OBA
            IN  /\ Defined(ws, "100") => primary = ws["100"].diff_rolling_OBA
                /\ ~Defined(ws, "100") /\ Defined(ws, "50") =>
                      primary = ws["50"].diff_rolling_OBA
                /\ ~Defined(ws, "100") /\ ~Defined(ws, "50") /\ Defined(ws, "250") =>
                      primary = ws["250"].diff_rolling_OBA

\* all three windows are defined with three different differentials, and
\* window 100's is the primary one
C3_Witness ==
    \E i \in 1..Len(players) :
        /\ "rolling" \in DOMAIN players[i]
        /\ Defined(players[i].rolling, "100")
        /\ Defined(players[i].rolling, "50")
        /\ Defined(players[i].rolling, "250")
        /\ players[i].rolling["50"].diff_rolling_OBA
              # players[i].rolling["100"].diff_rolling_OBA
        /\ players[i].rolling["250"].diff_rolling_OBA
              # players[i].rolling["100"].diff_rolling_OBA
        /\ players[i].diff_rolling_OBA = players[i].rolling["100"].diff_rolling_OBA

\* no rolling differential was selected for the record
NoRollingSelected(p) ==
    \/ "rolling" \notin DOMAIN p
    \/ \A key \in DOMAIN p.rolling : p.rolling[key].diff_rolling_OBA = None

\* C4: a record for which no rolling differential was selected has as primary
\* differential the negated season differential (at the three decimals of the
\* report) when the provider gives one and 0.0 when it does not, while its
\* season-differential field keeps the provider's sign.
C4_SeasonFallback ==
    \A i \in 1..Len(players) :
        NoRollingSelected(players[i]) =>
            LET x == SeasonDiff(players[i].player_id)
            IN  IF x.k = "fin"
                THEN /\ players[i].diff_rolling_OBA = Fin(RoundDiv(0 - x.v, 10))
                     /\ players[i].diff_season = Fin(RoundDiv(x.v, 10))
                     /\ players[i].diff_rolling_OBA.v = 0 - players[i].diff_season.v
                ELSE IF x.k = "inf"
                THEN /\ players[i].diff_rolling_OBA = NegInf
                     /\ players[i].diff_season = Inf
                ELSE IF x.k = "-inf"
                THEN /\ players[i].diff_rolling_OBA = Inf
                     /\ players[i].diff_season = NegInf
                ELSE /\ players[i].diff_rolling_OBA = Fin(0)
                     /\ players[i].diff_season = None

\* a record with a rolling block whose every window is undefined falls back
\* to the provider's +0.0204, reported as -0.020 beside a season field +0.020
C4_Witness ==
    \E i \in 1..Len(players) :
        /\ "rolling" \in DOMAIN players[i]
        /\ NoRollingSelected(players[i])
        /\ SeasonDiff(players[i].player_id) = Fin(204)
        /\ players[i].diff_rolling_OBA = Fin(-20)
        /\ players[i].diff_season = Fin(20)

\* the records build_output makes of the season rows, as a set
OutputRecords ==
    {Player(expected_df[j], rolling_data, team_map) :
        j \in {k \in 1..Len(expected_df) : expected_df[k].pa >= MIN_PA}}

\* x <= y for two differentials, each a number or an infinity
Le(x, y) ==
    \/ x.k = "-inf"
    \/ y.k = "inf"
    \/ x.k = "fin" /\ y.k = "fin" /\ x.v <= y.v

\* C5: the returned list is ascending by primary differential, and when the
\* primary differentials are distinct the list is determined by the set of
\* season rows alone: each record stands at the rank of its differential.
C5_AscendingOrder ==
    pc = "done" =>
        /\ \A i \in 1..(Len(players) - 1) :
              Le(players[i].diff_rolling_OBA, players[i + 1].diff_rolling_OBA)
        /\ (\A p, q \in OutputRecords :
                p # q => p.diff_rolling_OBA # q.diff_rolling_OBA)
           => /\ Len(players) = Cardinality(OutputRecords)
              /\ \A p \in OutputRecords :
                    players[1 + Cardinality({q \in OutputRecords :
                        /\ q.diff_rolling_OBA # p.diff_rolling_OBA
                        /\ Le(q.diff_rolling_OBA, p.diff_rolling_OBA)})] = p

\* the season rows came in the order opposite to the ranking
C5_Witness ==
    /\ pc = "done"
    /\ Len(players) = 2
    /\ Len(expected_df) = 2
    /\ players[1].diff_rolling_OBA # players[2].diff_rolling_OBA
    /\ Le(players[1].diff_rolling_OBA, players[2].diff_rolling_OBA)
    /\ expected_df[1].player_id = players[2].player_id

\* the rows (1 = row `window` of the group) at which the realized rolling
\* series of a window is defined, and those of them the trend samples
TrendPositions(rolling_woba) ==
    LET m == Len(rolling_woba)
        defined == SelectSeq([i \in 1..m |-> i],
                             LAMBDA i : rolling_woba[i].k # "nan")
    IN  IF Len(defined) >= TREND_POINTS
        THEN [i \in 1..TREND_POINTS |-> defined[Linspace(Len(defined))[i] + 1]]
        ELSE defined

\* the number a window key stands for
WindowOfKey(key) == CHOOSE w \in Range(ROLLING_WINDOWS) : Str(w) = key

\* C6: in every window result the realized and the expected trend have the
\* same length, element i of both is taken from the same row of the rolling
\* series, and trend_diff[i] = trend_woba[i] - trend_xwoba[i].
C6_TrendsAligned ==
    LastHasResult =>
        LET b == batter_pa[1].batter
        IN  \A key \in DOMAIN results[b].windows :
              LET res == results[b].windows[key]
              IN  /\ Len(res.trend_woba) = Len(res.trend_xwoba)
                  /\ \E noise \in Noises(batter_pa) :
                        LET rs == RollingSeries(batter_pa, WindowOfKey(key), noise)
                            at == TrendPositions(rs.rolling_woba)
                        IN  /\ Len(res.trend_woba) = Len(at)
                            /\ \A i \in 1..Len(at) :
                                  /\ res.trend_woba[i] = Round3(rs.rolling_woba[at[i]])
                                  /\ res.trend_xwoba[i] = Round3(rs.rolling_xwoba[at[i]])
                                  /\ res.trend_diff[i] =
                                       FSub(res.trend_woba[i], res.trend_xwoba[i])

\* C7: when the weights of the last `window` events sum to zero, the headline
\* realized ratio, expected ratio and differential are all None.
C7_ZeroWeightIsAbsent ==
    LastHasResult =>
        LET b == batter_pa[1].batter
        IN  \A key \in DOMAIN results[b].windows :
              LET res == results[b].windows[key]
              IN  SumLast(batter_pa, "woba_denom", WindowOfKey(key)) = 0 =>
                    /\ res.rolling_woba = None
                    /\ res.rolling_xwoba = None
                    /\ res.diff_rolling_OBA = None

\* the rolling results the events of entity b determine: one, but for the
\* last bits of the float sums (the side of a value that lies on a rounding
\* tie, the residue of a sum of zeros)
ResultsOf(b) ==
    LET g == BatterPa(pa_df, b)
    IN  {BatterResult(g, noise) :
            noise \in {x \in Noises(g) : ~BatterRaises(g, x)}}

\* the events of entity b alone yield a rolling result, whatever the last
\* bits of the float sums are
YieldsAlone(b) ==
    LET g == BatterPa(pa_df, b)
    IN  Len(g) >= MIN_PA /\ \A noise \in Noises(g) : ~BatterRaises(g, noise)

\* C8: whatever the events of the other entities are, an entity whose own
\* events yield a rolling result has that rolling block in its output record.
C8_NoCrossEntityAbort ==
    pc = "done" /\ pa_df # <<>> =>
        \A a \in Batters :
            YieldsAlone(a) =>
                \A i \in PlayersOf(a) :
                    /\ "rolling" \in DOMAIN players[i]
                    /\ \E r \in ResultsOf(a) : players[i].rolling = r.windows

\* C9: whichever entities the loop has gone through, the mapping that
\* compute_rolling_metrics leaves to main has, for every entity whose own
\* events yield a result, the one entry those events determine.
C9_EntryFromOwnEvents ==
    pc = "step5" /\ pa_df # <<>> =>
        \A b \in Batters :
            YieldsAlone(b) =>
                /\ b \in DOMAIN rolling_data
                /\ rolling_data[b] \in ResultsOf(b)

\* the qualifying event of b that is greatest by (game date, at-bat number)
LastEvent(b) ==
    LET rows == QualifyingRows(b)
        date == SetMax({r.game_date : r \in rows})
        onDate == {r \in rows : r.game_date = date}
        atBat == SetMax({r.at_bat_number : r \in onDate})
    IN  CHOOSE r \in onDate : r.at_bat_number = atBat

\* C10: the team lookup maps every entity with a qualifying event to the
\* batting team of its last event by (game date, at-bat number): the away
\* team if that half-inning is Top, else the home team.
C10_TeamOfLastEvent ==
    pc = "step4" =>
        \A b \in Batters :
            QualifyingRows(b) # {} =>
                /\ b \in DOMAIN team_map
                /\ team_map[b] =
                     (IF LastEvent(b).inning_topbot = "Top"
                      THEN LastEvent(b).away_team ELSE LastEvent(b).home_team)

====
